---- MODULE Spec2Model ----
(***************************************************************************)
(* Model of the fal.ai MCP server: the tool catalogue, the tool-call       *)
(* handler (validate -> invoke -> extract -> persist -> respond), the      *)
(* FalClient timeout race and error classification.                        *)
(*                                                                         *)
(* Numbers carried by arguments and schemas are in tenths (10 = 1.0), so   *)
(* that the non-integer bounds of the schemas (0.5, 2.0) and non-integer   *)
(* argument values are exact.                                              *)
(***************************************************************************)
EXTENDS Integers, Sequences, FiniteSets, TLC

\* ------------------------------------------------------------------------
\* Bounds of the model
\* ------------------------------------------------------------------------

\* Number of invocations that may be in flight concurrently (SpecConc).
NumInv == 2

\* Last value of the wall clock read by getAutoSavePath (milliseconds).
MaxNow == 1

\* ------------------------------------------------------------------------
\* Program constants
\* ------------------------------------------------------------------------

\* config.ts: timeout when FAL_TIMEOUT is unset
DefaultTimeout == 120000

\* fal-client.ts: runLong multiplies the base timeout
LongFactor == 5

DefaultOutputDir == "./generated-media"

\* ------------------------------------------------------------------------
\* Values of the argument bag (JSON values)
\* ------------------------------------------------------------------------

Str(s) == [t |-> "string", s |-> s, n |-> 0]
Num(tenths) == [t |-> "number", s |-> "", n |-> tenths]
Whole(k) == Num(10 * k)
Null == [t |-> "null", s |-> "", n |-> 0]


\* An argument bag is a function from the keys present to their values.
EmptyBag == [f \in {} |-> Null]

With(bag, f, v) == [g \in DOMAIN bag \cup {f} |-> IF g = f THEN v ELSE bag[g]]

Without(bag, f) == [g \in DOMAIN bag \ {f} |-> bag[g]]

\* ------------------------------------------------------------------------
\* The catalogue returned by the tools/list handler
\* ------------------------------------------------------------------------

ImageSizes ==
  {"square_hd", "square", "portrait_4_3", "portrait_16_9", "landscape_4_3", "landscape_16_9"}

OutputFormats == {"png", "jpeg"}

Durations == {"5", "10"}

AspectRatios == {"16:9", "9:16", "1:1"}

\* Catalogue property descriptors (JSON schema): type, enum, minimum, maximum.
CStr == [type |-> "string", enum |-> {}, hasMin |-> FALSE, min |-> 0, hasMax |-> FALSE, max |-> 0]
CEnum(S) == [CStr EXCEPT !.enum = S]
CIntAny == [CStr EXCEPT !.type = "integer"]
CInt(lo, hi) ==
  [type |-> "integer", enum |-> {}, hasMin |-> TRUE, min |-> 10 * lo, hasMax |-> TRUE, max |-> 10 * hi]
CNumAny == [CStr EXCEPT !.type = "number"]
CNumT(lo, hi) ==
  [type |-> "number", enum |-> {}, hasMin |-> TRUE, min |-> lo, hasMax |-> TRUE, max |-> hi]

ToolNames ==
  << "generate_image", "edit_image", "image_to_image", "inpaint", "style_transfer",
     "text_to_video", "image_to_video", "lipsync", "avatar_video",
     "upscale_image", "upscale_video", "remove_background", "remove_video_background",
     "face_swap_image", "face_swap_video", "segment_image", "estimate_depth",
     "generate_music", "text_to_speech", "generate_sound_effect",
     "image_to_3d", "retexture_3d" >>

Catalogued == {ToolNames[k] : k \in 1..Len(ToolNames)}

\* inputSchema of each advertised tool: its properties and its required list.
Catalogue(name) ==
  CASE name = "generate_image" ->
         [properties |-> [prompt |-> CStr, image_size |-> CEnum(ImageSizes),
                          num_images |-> CInt(1, 4), seed |-> CIntAny,
                          output_format |-> CEnum(OutputFormats), save_path |-> CStr],
          required |-> {"prompt"}]
    [] name = "edit_image" ->
         [properties |-> [prompt |-> CStr, image_url |-> CStr, image_size |-> CEnum(ImageSizes),
                          seed |-> CIntAny, save_path |-> CStr],
          required |-> {"prompt", "image_url"}]
    [] name = "image_to_image" ->
         [properties |-> [prompt |-> CStr, image_url |-> CStr, strength |-> CNumT(0, 10),
                          image_size |-> CEnum(ImageSizes), num_inference_steps |-> CInt(1, 50),
                          seed |-> CIntAny, num_images |-> CInt(1, 4),
                          output_format |-> CEnum(OutputFormats), save_path |-> CStr],
          required |-> {"prompt", "image_url"}]
    [] name = "inpaint" ->
         [properties |-> [prompt |-> CStr, image_url |-> CStr, mask_url |-> CStr,
                          image_size |-> CEnum(ImageSizes), num_inference_steps |-> CInt(1, 50),
                          seed |-> CIntAny, output_format |-> CEnum(OutputFormats),
                          save_path |-> CStr],
          required |-> {"prompt", "image_url", "mask_url"}]
    [] name = "style_transfer" ->
         [properties |-> [image_url |-> CStr, image_size |-> CEnum(ImageSizes),
                          num_inference_steps |-> CInt(1, 4), seed |-> CIntAny,
                          num_images |-> CInt(1, 4), save_path |-> CStr],
          required |-> {"image_url"}]
    [] name = "text_to_video" ->
         [properties |-> [prompt |-> CStr, duration |-> CEnum(Durations),
                          aspect_ratio |-> CEnum(AspectRatios), negative_prompt |-> CStr,
                          save_path |-> CStr],
          required |-> {"prompt"}]
    [] name = "image_to_video" ->
         [properties |-> [prompt |-> CStr, image_url |-> CStr, duration |-> CEnum(Durations),
                          aspect_ratio |-> CEnum(AspectRatios), save_path |-> CStr],
          required |-> {"prompt", "image_url"}]
    [] name = "lipsync" ->
         [properties |-> [video_url |-> CStr, audio_url |-> CStr, save_path |-> CStr],
          required |-> {"video_url", "audio_url"}]
    [] name = "avatar_video" ->
         [properties |-> [image_url |-> CStr, audio_url |-> CStr, save_path |-> CStr],
          required |-> {"image_url", "audio_url"}]
    [] name = "upscale_image" ->
         [properties |-> [image_url |-> CStr, scale |-> CNumT(10, 80), save_path |-> CStr],
          required |-> {"image_url"}]
    [] name = "upscale_video" ->
         [properties |-> [video_url |-> CStr, scale |-> CNumT(10, 40), save_path |-> CStr],
          required |-> {"video_url"}]
    [] name = "remove_background" ->
         [properties |-> [image_url |-> CStr, save_path |-> CStr],
          required |-> {"image_url"}]
    [] name = "remove_video_background" ->
         [properties |-> [video_url |-> CStr, save_path |-> CStr],
          required |-> {"video_url"}]
    [] name = "face_swap_image" ->
         [properties |-> [base_image_url |-> CStr, swap_image_url |-> CStr, save_path |-> CStr],
          required |-> {"base_image_url", "swap_image_url"}]
    [] name = "face_swap_video" ->
         [properties |-> [base_video_url |-> CStr, swap_image_url |-> CStr, save_path |-> CStr],
          required |-> {"base_video_url", "swap_image_url"}]
    [] name = "segment_image" ->
         [properties |-> [image_url |-> CStr, prompt |-> CStr, save_path |-> CStr],
          required |-> {"image_url"}]
    [] name = "estimate_depth" ->
         [properties |-> [image_url |-> CStr, save_path |-> CStr],
          required |-> {"image_url"}]
    [] name = "generate_music" ->
         [properties |-> [prompt |-> CStr, duration |-> CNumAny, save_path |-> CStr],
          required |-> {"prompt"}]
    [] name = "text_to_speech" ->
         [properties |-> [text |-> CStr, voice_id |-> CStr, speed |-> CNumT(5, 20),
                          save_path |-> CStr],
          required |-> {"text"}]
    [] name = "generate_sound_effect" ->
         [properties |-> [prompt |-> CStr, duration_seconds |-> CNumAny, save_path |-> CStr],
          required |-> {"prompt"}]
    [] name = "image_to_3d" ->
         [properties |-> [image_url |-> CStr, save_path |-> CStr],
          required |-> {"image_url"}]
    [] name = "retexture_3d" ->
         [properties |-> [model_url |-> CStr, prompt |-> CStr, reference_image_url |-> CStr,
                          save_path |-> CStr],
          required |-> {"model_url", "prompt"}]

\* ------------------------------------------------------------------------
\* The zod schemas of the tools/call handler
\* ------------------------------------------------------------------------

\* z.string().min(1)
ZStr1 ==
  [type |-> "string", optional |-> FALSE, minLen |-> 1, int |-> FALSE,
   hasMin |-> FALSE, min |-> 0, hasMax |-> FALSE, max |-> 0]
\* z.string().optional()
ZStrOpt == [ZStr1 EXCEPT !.optional = TRUE, !.minLen = 0]
\* z.number().optional()
ZNumOpt == [ZStrOpt EXCEPT !.type = "number"]
\* z.number().int().optional()
ZIntOpt == [ZNumOpt EXCEPT !.int = TRUE]
\* ZIntRange without the upper bound.
ZIntRangeNoMax(lo, hi) == [ZIntOpt EXCEPT !.hasMin = TRUE, !.min = 10 * lo]

\* z.number().int().min(lo).max(hi).optional()
ZIntRange(lo, hi) ==
  [ZIntOpt EXCEPT !.hasMin = TRUE, !.min = 10 * lo, !.hasMax = TRUE, !.max = 10 * hi]
\* z.number().min(lo).max(hi).optional(), bounds in tenths
ZNumRangeT(lo, hi) ==
  [ZNumOpt EXCEPT !.hasMin = TRUE, !.min = lo, !.hasMax = TRUE, !.max = hi]

ZodSchema(name) ==
  CASE name = "generate_image" ->
         [prompt |-> ZStr1, image_size |-> ZStrOpt, num_images |-> ZIntRange(1, 4),
          seed |-> ZIntOpt, output_format |-> ZStrOpt, save_path |-> ZStrOpt]
    [] name = "edit_image" ->
         [prompt |-> ZStr1, image_url |-> ZStr1, image_size |-> ZStrOpt, seed |-> ZIntOpt,
          save_path |-> ZStrOpt]
    [] name = "image_to_image" ->
         [prompt |-> ZStr1, image_url |-> ZStr1, strength |-> ZNumRangeT(0, 10),
          image_size |-> ZStrOpt, num_inference_steps |-> ZIntRange(1, 50), seed |-> ZIntOpt,
          num_images |-> ZIntRange(1, 4), output_format |-> ZStrOpt, save_path |-> ZStrOpt]
    [] name = "inpaint" ->
         [prompt |-> ZStr1, image_url |-> ZStr1, mask_url |-> ZStr1, image_size |-> ZStrOpt,
          num_inference_steps |-> ZIntRange(1, 50), seed |-> ZIntOpt,
          output_format |-> ZStrOpt, save_path |-> ZStrOpt]
    [] name = "style_transfer" ->
         [image_url |-> ZStr1, image_size |-> ZStrOpt, num_inference_steps |-> ZIntRange(1, 4),
          seed |-> ZIntOpt, num_images |-> ZIntRange(1, 4), save_path |-> ZStrOpt]
    [] name = "text_to_video" ->
         [prompt |-> ZStr1, duration |-> ZStrOpt, aspect_ratio |-> ZStrOpt,
          negative_prompt |-> ZStrOpt, save_path |-> ZStrOpt]
    [] name = "image_to_video" ->
         [prompt |-> ZStr1, image_url |-> ZStr1, duration |-> ZStrOpt,
          aspect_ratio |-> ZStrOpt, save_path |-> ZStrOpt]
    [] name = "lipsync" ->
         [video_url |-> ZStr1, audio_url |-> ZStr1, save_path |-> ZStrOpt]
    [] name = "avatar_video" ->
         [image_url |-> ZStr1, audio_url |-> ZStr1, save_path |-> ZStrOpt]
    [] name = "upscale_image" ->
         [image_url |-> ZStr1, scale |-> ZNumRangeT(10, 80), save_path |-> ZStrOpt]
    [] name = "upscale_video" ->
         [video_url |-> ZStr1, scale |-> ZNumRangeT(10, 40), save_path |-> ZStrOpt]
    [] name = "remove_background" ->
         [image_url |-> ZStr1, save_path |-> ZStrOpt]
    [] name = "remove_video_background" ->
         [video_url |-> ZStr1, save_path |-> ZStrOpt]
    [] name = "face_swap_image" ->
         [base_image_url |-> ZStr1, swap_image_url |-> ZStr1, save_path |-> ZStrOpt]
    [] name = "face_swap_video" ->
         [base_video_url |-> ZStr1, swap_image_url |-> ZStr1, save_path |-> ZStrOpt]
    [] name = "segment_image" ->
         [image_url |-> ZStr1, prompt |-> ZStrOpt, save_path |-> ZStrOpt]
    [] name = "estimate_depth" ->
         [image_url |-> ZStr1, save_path |-> ZStrOpt]
    [] name = "generate_music" ->
         [prompt |-> ZStr1, duration |-> ZNumOpt, save_path |-> ZStrOpt]
    [] name = "text_to_speech" ->
         [text |-> ZStr1, voice_id |-> ZStrOpt, speed |-> ZNumRangeT(5, 20),
          save_path |-> ZStrOpt]
    [] name = "generate_sound_effect" ->
         [prompt |-> ZStr1, duration_seconds |-> ZNumOpt, save_path |-> ZStrOpt]
    [] name = "image_to_3d" ->
         [image_url |-> ZStr1, save_path |-> ZStrOpt]
    [] name = "retexture_3d" ->
         [model_url |-> ZStr1, prompt |-> ZStr1, reference_image_url |-> ZStrOpt,
          save_path |-> ZStrOpt]

\* Dispatched with the last case missing.
DispatchedButLast ==
  {"generate_image", "edit_image", "image_to_image", "inpaint", "style_transfer",
   "text_to_video", "image_to_video", "lipsync", "avatar_video", "upscale_image",
   "upscale_video", "remove_background", "remove_video_background", "face_swap_image",
   "face_swap_video", "segment_image", "estimate_depth", "generate_music",
   "text_to_speech", "generate_sound_effect", "image_to_3d"}

\* The names the handler's switch dispatches (every other name reaches default:).
Dispatched ==
  {"generate_image", "edit_image", "image_to_image", "inpaint", "style_transfer",
   "text_to_video", "image_to_video", "lipsync", "avatar_video", "upscale_image",
   "upscale_video", "remove_background", "remove_video_background", "face_swap_image",
   "face_swap_video", "segment_image", "estimate_depth", "generate_music",
   "text_to_speech", "generate_sound_effect", "image_to_3d", "retexture_3d"}

\* ZodFieldOk with every field treated as optional.
ZodFieldOkAllOptional(spec, present, v) ==
  IF ~present
    THEN TRUE
    ELSE /\ v.t = spec.type
         /\ (spec.type = "string" => (spec.minLen = 1 => v.s # ""))
         /\ (spec.type = "number" =>
               /\ (spec.int => v.n % 10 = 0)
               /\ (spec.hasMin => v.n >= spec.min)
               /\ (spec.hasMax => v.n <= spec.max))

\* One field of schema.parse: a key that is absent passes only when optional;
\* a present value must have the declared type and satisfy every refinement.
ZodFieldOk(spec, present, v) ==
  IF ~present
    THEN spec.optional
    ELSE /\ v.t = spec.type
         /\ (spec.type = "string" => (spec.minLen = 1 => v.s # ""))
         /\ (spec.type = "number" =>
               /\ (spec.int => v.n % 10 = 0)
               /\ (spec.hasMin => v.n >= spec.min)
               /\ (spec.hasMax => v.n <= spec.max))

\* schema.parse(args) does not throw.
ZodParseOk(schema, args) ==
  \A f \in DOMAIN schema :
    ZodFieldOk(schema[f], f \in DOMAIN args, IF f \in DOMAIN args THEN args[f] ELSE Null)

\* The parsed record: z.object drops the keys the schema does not declare.
ZodParsed(schema, args) == [f \in DOMAIN schema \cap DOMAIN args |-> args[f]]

\* ApiInput forwarding the whole parsed record.
ApiInputKeepsAll(input) == input

\* const { save_path, ...apiInput } = input
ApiInput(input) == Without(input, "save_path")

\* ------------------------------------------------------------------------
\* FalClient: the method each tool calls, and the timeout it races against
\* ------------------------------------------------------------------------

\* The client methods that go through runLong; the others go through run.
UsesRunLong(name) ==
  name \in {"text_to_video", "image_to_video", "lipsync", "avatar_video", "upscale_video",
            "remove_video_background", "face_swap_video", "generate_music",
            "image_to_3d", "retexture_3d"}

\* setTimeout(..., this.timeout) in run, setTimeout(..., this.timeout * 5) in runLong
RaceBudget(name, timeout) == IF UsesRunLong(name) THEN timeout * LongFactor ELSE timeout

\* ------------------------------------------------------------------------
\* Thrown values and FalClient.handleError
\* ------------------------------------------------------------------------

Msg(m, p) == [m |-> m, p |-> p]
NoMsg == Msg("", "")

\* A thrown value: null, undefined, a string, or an object with optional
\* message, status, code and body.detail ("" and 0 stand for an absent field).
ErrObj(m, status, code, detail) ==
  [kind |-> "object", message |-> m, status |-> status, code |-> code, detail |-> detail,
   str |-> ""]
ErrNull == [ErrObj(NoMsg, 0, "", "") EXCEPT !.kind = "null"]
ErrUndefined == [ErrObj(NoMsg, 0, "", "") EXCEPT !.kind = "undefined"]
ErrString(s) == [ErrObj(NoMsg, 0, "", "") EXCEPT !.kind = "string", !.str = s]

RequestTimeout == ErrObj(Msg("Request timeout", ""), 0, "", "")
ZodError == ErrObj(Msg("ZodError", ""), 0, "", "")
TypeError == ErrObj(Msg("TypeError", ""), 0, "", "")
UnknownToolUnnamed(name) == ErrObj(Msg("Unknown tool", ""), 0, "", "")
UnknownTool(name) == ErrObj(Msg("Unknown tool: ", name), 0, "", "")
DownloadFailedNoStatus(statusText) == ErrObj(Msg("Failed to download", ""), 0, "", "")
DownloadFailed(statusText) == ErrObj(Msg("Failed to download: ", statusText), 0, "", "")
FetchFailed == ErrObj(Msg("fetch failed", ""), 0, "", "")

\* (the message texts are the source's, its long dash written as -)
TimeoutText ==
  "fal.ai request timed out. This model may take longer - try again or increase FAL_TIMEOUT."
InvalidKeyText == "Invalid fal.ai API key. Please check your FAL_KEY environment variable."
RateLimitText == "fal.ai rate limit exceeded. Please wait a moment and try again."
ValidationText == "fal.ai validation error: "
ConnectText == "Failed to connect to fal.ai API: "
GenericText == "fal.ai API error: "

\* `${x}` of a message that may be absent
Shown(m) == IF m = NoMsg THEN Msg("undefined", "") ELSE m

\* handleError either returns an Error carrying text + arg, or itself throws
\* (reading .message of null or undefined is a TypeError).
Handled(text, arg) == [threw |-> FALSE, text |-> text, arg |-> arg]
HandlerThrew == [threw |-> TRUE, text |-> "", arg |-> NoMsg]

handleError(error) ==
  IF error.kind \in {"null", "undefined"} THEN HandlerThrew
  ELSE IF error.message = Msg("Request timeout", "") THEN Handled(TimeoutText, NoMsg)
  ELSE IF error.status = 401 \/ error.status = 403 THEN Handled(InvalidKeyText, NoMsg)
  ELSE IF error.status = 429 THEN Handled(RateLimitText, NoMsg)
  ELSE IF error.status = 422
    THEN Handled(ValidationText,
                 IF error.detail # "" THEN Msg(error.detail, "") ELSE Shown(error.message))
  ELSE IF error.code = "ENOTFOUND" \/ error.code = "ECONNREFUSED"
    THEN Handled(ConnectText, Shown(error.message))
  ELSE Handled(GenericText,
               IF error.message # NoMsg THEN error.message
               ELSE IF error.kind = "string" THEN Msg(error.str, "")
               ELSE Msg("[object Object]", ""))

\* ------------------------------------------------------------------------
\* Upstream payloads and the result extractors
\* ------------------------------------------------------------------------

\* A payload (result.data) is a function from the keys present to
\*   [arr, els, url]: for `images`, arr says whether it is an array and els are
\*   its elements; for an object key (image, video, output, ...) url is its
\*   .url ("" when absent); for a flat key (image_url, url, ...) url is the value.
Obj(u) == [arr |-> FALSE, els |-> << >>, url |-> u]
Arr(els) == [arr |-> TRUE, els |-> els, url |-> ""]

\* Elements of `images`: an object with a url ("" when it has none), a bare
\* string, or null.
ImgObj(u) == [k |-> "obj", url |-> u]
ImgStr(u) == [k |-> "str", url |-> u]
ImgNull == [k |-> "null", url |-> ""]

EmptyData == [f \in {} |-> Obj("")]

One(key, v) == [f \in {key} |-> v]

Has(data, key) == key \in DOMAIN data

\* data.key?.url , data.key  (truthiness: a non-empty string)
UrlOf(data, key) == IF Has(data, key) THEN data[key].url ELSE ""

\* img.url || img
ImgValue(img) == IF img.k = "obj" /\ img.url # "" THEN ImgStr(img.url) ELSE img

\* .filter(Boolean): the empty string is dropped; an object is truthy.
Truthy(item) == ~(item.k = "str" /\ item.url = "")

\* The first non-empty candidate, in order ("" when there is none).
RECURSIVE FirstTruthy(_)
FirstTruthy(cands) ==
  IF cands = << >> THEN ""
  ELSE IF Head(cands) # "" THEN Head(cands)
  ELSE FirstTruthy(Tail(cands))

Extracted(urls) == [threw |-> FALSE, urls |-> urls]
ExtractThrew == [threw |-> TRUE, urls |-> << >>]

\* extractImageUrls probing the singular locations before the plural one.
extractImageUrlsSingularFirst(data) ==
  LET u == FirstTruthy(<< UrlOf(data, "image"), UrlOf(data, "image_url"),
                          UrlOf(data, "output"), UrlOf(data, "url") >>) IN
  IF u # "" THEN Extracted(<< ImgStr(u) >>)
  ELSE IF Has(data, "images") /\ data["images"].arr
    THEN Extracted(SelectSeq([k \in 1..Len(data["images"].els) |->
                                ImgValue(data["images"].els[k])], Truthy))
    ELSE Extracted(<< >>)

extractImageUrls(data) ==
  IF Has(data, "images") /\ data["images"].arr
    THEN LET els == data["images"].els IN
         IF \E k \in 1..Len(els) : els[k].k = "null"
           THEN ExtractThrew
           ELSE Extracted(SelectSeq([k \in 1..Len(els) |-> ImgValue(els[k])], Truthy))
    ELSE LET u == FirstTruthy(<< UrlOf(data, "image"), UrlOf(data, "image_url"),
                                 UrlOf(data, "output"), UrlOf(data, "url") >>) IN
         IF u = "" THEN Extracted(<< >>) ELSE Extracted(<< ImgStr(u) >>)

extractVideoUrl(data) ==
  FirstTruthy(<< UrlOf(data, "video"), UrlOf(data, "video_url"), UrlOf(data, "output"),
                 UrlOf(data, "url") >>)

\* extractAudioUrl without the generic output wrapper.
extractAudioUrlNoOutput(data) ==
  FirstTruthy(<< UrlOf(data, "audio"), UrlOf(data, "audio_url"), UrlOf(data, "audio_file"),
                 UrlOf(data, "url") >>)

extractAudioUrl(data) ==
  FirstTruthy(<< UrlOf(data, "audio"), UrlOf(data, "audio_url"), UrlOf(data, "audio_file"),
                 UrlOf(data, "output"), UrlOf(data, "url") >>)

\* extract3DUrl probing glb before the generic output wrapper.
extract3DUrlGlbFirst(data) ==
  FirstTruthy(<< UrlOf(data, "model"), UrlOf(data, "model_url"), UrlOf(data, "mesh"),
                 UrlOf(data, "glb"), UrlOf(data, "output"), UrlOf(data, "url") >>)

extract3DUrl(data) ==
  FirstTruthy(<< UrlOf(data, "model"), UrlOf(data, "model_url"), UrlOf(data, "mesh"),
                 UrlOf(data, "output"), UrlOf(data, "glb"), UrlOf(data, "url") >>)

\* ------------------------------------------------------------------------
\* The per-tool wiring of the handler's switch
\* ------------------------------------------------------------------------

\* kind: the extractor used; emptyIsError/emptyText: the response when the
\* extractor finds nothing; prefix/ext: the arguments of getAutoSavePath
\* (fmtExt: the extension is input.output_format when given); savedText: the
\* success message that precedes the path. Line breaks of the source's texts
\* are written as spaces.
\* Op for which finding nothing is never an error.
OpEmptyNeverError(kind, emptyIsError, emptyText, prefix, ext, fmtExt, savedText) ==
  [kind |-> kind, emptyIsError |-> FALSE, emptyText |-> emptyText,
   prefix |-> prefix, ext |-> ext, fmtExt |-> fmtExt, savedText |-> savedText]

Op(kind, emptyIsError, emptyText, prefix, ext, fmtExt, savedText) ==
  [kind |-> kind, emptyIsError |-> emptyIsError, emptyText |-> emptyText,
   prefix |-> prefix, ext |-> ext, fmtExt |-> fmtExt, savedText |-> savedText]

OpTable(name) ==
  CASE name = "generate_image" ->
         Op("image", TRUE, "No image was generated. Try rephrasing your prompt.",
            "generated", "png", TRUE, "Image generated and saved to: ")
    [] name = "edit_image" ->
         Op("image", TRUE, "No edited image was generated. Try rephrasing your prompt.",
            "edited", "png", FALSE, "Edited image saved to: ")
    [] name = "image_to_image" ->
         Op("image", TRUE, "No image was generated. Try rephrasing your prompt.",
            "img2img", "png", TRUE, "Transformed image saved to: ")
    [] name = "inpaint" ->
         Op("image", TRUE, "Inpainting failed. Try a different prompt or mask.",
            "inpainted", "png", TRUE, "Inpainted image saved to: ")
    [] name = "style_transfer" ->
         Op("image", TRUE, "Style transfer failed. Try a different reference image.",
            "style-transfer", "png", FALSE, "Style transfer result saved to: ")
    [] name = "text_to_video" ->
         Op("video", TRUE, "No video was generated. Try rephrasing your prompt.",
            "text2video", "mp4", FALSE, "Video generated and saved to: ")
    [] name = "image_to_video" ->
         Op("video", TRUE, "No video was generated. Try a different image or prompt.",
            "img2video", "mp4", FALSE, "Video generated and saved to: ")
    [] name = "lipsync" ->
         Op("video", TRUE, "Lipsync failed. Check that the video contains a visible face and the audio is clear.",
            "lipsync", "mp4", FALSE, "Lipsync video saved to: ")
    [] name = "avatar_video" ->
         Op("video", TRUE, "Avatar video generation failed. Ensure the image is a clear portrait/headshot.",
            "avatar", "mp4", FALSE, "Avatar video saved to: ")
    [] name = "upscale_image" ->
         Op("image", TRUE, "Upscaling failed.", "upscaled", "png", FALSE,
            "Upscaled image saved to: ")
    [] name = "upscale_video" ->
         Op("video", TRUE, "Video upscaling failed.", "upscaled", "mp4", FALSE,
            "Upscaled video saved to: ")
    [] name = "remove_background" ->
         Op("image", TRUE, "Background removal failed.", "no-bg", "png", FALSE,
            "Background removed. Saved to: ")
    [] name = "remove_video_background" ->
         Op("video", TRUE, "Video background removal failed.", "no-bg-video", "mp4", FALSE,
            "Video background removed. Saved to: ")
    [] name = "face_swap_image" ->
         Op("image", TRUE, "Face swap failed. Ensure both images contain clear, visible faces.",
            "face-swap", "png", FALSE, "Face swap result saved to: ")
    [] name = "face_swap_video" ->
         Op("video", TRUE, "Video face swap failed. Ensure the video has a clear face and the swap image is a good headshot.",
            "face-swap-video", "mp4", FALSE, "Face swap video saved to: ")
    [] name = "segment_image" ->
         Op("image", FALSE, "Segmentation complete. Raw result: ", "", "", FALSE,
            "Mask saved to: ")
    [] name = "estimate_depth" ->
         Op("image", FALSE, "Depth estimation complete. Raw result: ", "depth", "png", FALSE,
            "Depth map saved to: ")
    [] name = "generate_music" ->
         Op("audio", FALSE, "Music generation result: ", "music", "mp3", FALSE,
            "Music generated and saved to: ")
    [] name = "text_to_speech" ->
         Op("audio", FALSE, "TTS result: ", "speech", "mp3", FALSE, "Speech audio saved to: ")
    [] name = "generate_sound_effect" ->
         Op("audio", FALSE, "Sound effect result: ", "sfx", "mp3", FALSE,
            "Sound effect saved to: ")
    [] name = "image_to_3d" ->
         Op("3d", FALSE, "3D generation result: ", "model", "glb", FALSE, "3D model saved to: ")
    [] name = "retexture_3d" ->
         Op("3d", FALSE, "Retexture result: ", "retextured", "glb", FALSE,
            "Retextured 3D model saved to: ")

\* ------------------------------------------------------------------------
\* Paths and the artifact persister
\* ------------------------------------------------------------------------

\* path.dirname of the save_path strings the model draws
Dirname(p) ==
  CASE p = "/data/out/a.png" -> "/data/out"
    [] p = "/data/out/b.png" -> "/data/out"
    [] OTHER -> "."

\* A path: a caller's string (raw), or a derived name in the output directory.
ExplicitPath(p) ==
  [dir |-> Dirname(p), prefix |-> "", ts |-> -1, stamp |-> << >>, ext |-> "", raw |-> p]
NoPath == [dir |-> "", prefix |-> "", ts |-> -1, stamp |-> << >>, ext |-> "", raw |-> ""]

\* The milliseconds field of toISOString for the clock readings of the model.
Millis == << "000", "001", "002", "003" >>

\* new Date().toISOString(): YYYY-MM-DDTHH:mm:ss.sssZ, as its fields and
\* separators (the clock counts milliseconds from the model's first instant).
ToISOString(clock) ==
  << "2026", "-", "01", "-", "01", "T", "00", ":", "00", ":", "00", ".", Millis[clock + 1], "Z" >>

\* .replace(/[:.]/g, '-')
ReplaceColonsDots(iso) == [k \in DOMAIN iso |-> IF iso[k] \in {":", "."} THEN "-" ELSE iso[k]]

\* getAutoSavePath using the ISO timestamp as it is.
getAutoSavePathRawStamp(outputDir, prefix, ext, clock) ==
  [dir |-> outputDir, prefix |-> prefix, ts |-> clock, stamp |-> ToISOString(clock),
   ext |-> ext, raw |-> ""]

\* `${prefix}-${timestamp}.${ext}` resolved against config.outputDir; the
\* timestamp is the clock reading at the call.
getAutoSavePath(outputDir, prefix, ext, clock) ==
  [dir |-> outputDir, prefix |-> prefix, ts |-> clock,
   stamp |-> ReplaceColonsDots(ToISOString(clock)), ext |-> ext, raw |-> ""]

\* save_path is given and truthy (a non-empty string)
HasSavePath(input) == "save_path" \in DOMAIN input /\ input["save_path"].s # ""

\* input.output_format || 'png'
ExtOf(op, input) ==
  IF op.fmtExt /\ "output_format" \in DOMAIN input /\ input["output_format"].s # ""
    THEN input["output_format"].s
    ELSE op.ext

\* save_path || getAutoSavePath(prefix, ext)
SavePathOf(op, input, outputDir, clock) ==
  IF HasSavePath(input)
    THEN ExplicitPath(input["save_path"].s)
    ELSE getAutoSavePath(outputDir, op.prefix, ExtOf(op, input), clock)

\* ------------------------------------------------------------------------
\* Responses of the tools/call handler
\* ------------------------------------------------------------------------

Response(isError, text, arg, path, raw, more) ==
  [isError |-> isError, text |-> text, arg |-> arg, path |-> path, raw |-> raw, more |-> more]

NoResponse == Response(FALSE, "", NoMsg, NoPath, FALSE, << >>)

\* What the handler does once the upstream result is in hand, up to its next
\* await: respond, start a download, or throw.
DoRespond(r) == [do |-> "respond", resp |-> r, item |-> ImgNull, path |-> NoPath, err |-> ErrNull]
DoDownload(item, path) ==
  [do |-> "download", resp |-> NoResponse, item |-> item, path |-> path, err |-> ErrNull]
DoThrow(e) == [do |-> "throw", resp |-> NoResponse, item |-> ImgNull, path |-> NoPath, err |-> e]

SingleUrl(kind, data) ==
  CASE kind = "video" -> extractVideoUrl(data)
    [] kind = "audio" -> extractAudioUrl(data)
    [] kind = "3d" -> extract3DUrl(data)

AfterUpstream(name, input, result, outputDir, clock) ==
  LET op == OpTable(name)
      empty == Response(op.emptyIsError, op.emptyText, NoMsg, NoPath, ~op.emptyIsError, << >>)
  IN
  IF ~result.hasData THEN DoThrow(TypeError)
  ELSE IF op.kind = "image"
    THEN LET ex == extractImageUrls(result.data) IN
         IF ex.threw THEN DoThrow(TypeError)
         ELSE IF name = "segment_image"
           THEN IF Len(ex.urls) > 0 /\ HasSavePath(input)
                  THEN DoDownload(ex.urls[1], ExplicitPath(input["save_path"].s))
                  ELSE DoRespond(empty)
         ELSE IF Len(ex.urls) = 0 THEN DoRespond(empty)
         ELSE DoDownload(ex.urls[1], SavePathOf(op, input, outputDir, clock))
    ELSE LET url == SingleUrl(op.kind, result.data) IN
         IF url = "" THEN DoRespond(empty)
         ELSE DoDownload(ImgStr(url), SavePathOf(op, input, outputDir, clock))

\* The response after a completed download-and-write.
SavedResponse(name, path, urls) ==
  Response(FALSE, OpTable(name).savedText, NoMsg, path, name = "segment_image",
           IF name = "generate_image" /\ urls # << >> THEN Tail(urls) ELSE << >>)

\* ------------------------------------------------------------------------
\* Configuration: loadConfig and the environment
\* ------------------------------------------------------------------------

\* The environment: FAL_KEY and FAL_OUTPUT_DIR as strings, FAL_TIMEOUT as its
\* sequence of characters. "" and << >> stand for a variable that is unset or
\* empty: the code tests each with !x, x || d or x ? a : b, which treat the
\* two alike.
Env(key, timeoutStr, outputDir) ==
  [FAL_KEY |-> key, FAL_TIMEOUT |-> timeoutStr, FAL_OUTPUT_DIR |-> outputDir]

IsDigit(c) == c \in {"0", "1", "2", "3", "4", "5", "6", "7", "8", "9"}

DigitValue(c) ==
  CASE c = "0" -> 0 [] c = "1" -> 1 [] c = "2" -> 2 [] c = "3" -> 3 [] c = "4" -> 4
    [] c = "5" -> 5 [] c = "6" -> 6 [] c = "7" -> 7 [] c = "8" -> 8 [] c = "9" -> 9

RECURSIVE SkipSpaces(_)
SkipSpaces(str) ==
  IF str # << >> /\ Head(str) = " " THEN SkipSpaces(Tail(str)) ELSE str

\* The value of the longest prefix of digits, continuing from acc.
RECURSIVE DigitsValue(_, _)
DigitsValue(str, acc) ==
  IF str = << >> \/ ~IsDigit(Head(str)) THEN acc
  ELSE DigitsValue(Tail(str), 10 * acc + DigitValue(Head(str)))

\* parseInt(str, 10): leading white space, an optional sign, then the longest
\* prefix of digits; NaN when there is no digit at that point.
ParseInt(str) ==
  LET body == SkipSpaces(str)
      signed == body # << >> /\ Head(body) \in {"-", "+"}
      digits == IF signed THEN Tail(body) ELSE body
  IN IF digits = << >> \/ ~IsDigit(Head(digits))
       THEN [nan |-> TRUE, n |-> 0]
       ELSE [nan |-> FALSE,
             n |-> IF Head(body) = "-" THEN 0 - DigitsValue(digits, 0)
                   ELSE DigitsValue(digits, 0)]

\* How a Config carries a timeout that is NaN (no returned timeout is negative
\* otherwise).
NaN == -1

NoConfig == [apiKey |-> "", timeout |-> 0, outputDir |-> ""]

ConfigThrew(message) == [threw |-> TRUE, message |-> message, config |-> NoConfig]

\* loadConfig that does not require the credential.
loadConfigNoKeyCheck(env) ==
  LET t == IF env.FAL_TIMEOUT # << >> THEN ParseInt(env.FAL_TIMEOUT)
           ELSE [nan |-> FALSE, n |-> DefaultTimeout]
  IN IF ~t.nan /\ t.n <= 0 THEN ConfigThrew("FAL_TIMEOUT must be a positive number")
     ELSE [threw |-> FALSE, message |-> "",
           config |-> [apiKey |-> env.FAL_KEY,
                       timeout |-> IF t.nan THEN NaN ELSE t.n,
                       outputDir |-> IF env.FAL_OUTPUT_DIR # "" THEN env.FAL_OUTPUT_DIR
                                     ELSE DefaultOutputDir]]

loadConfig(env) ==
  IF env.FAL_KEY = ""
    THEN ConfigThrew("fal.ai API key not configured. Please set the FAL_KEY environment variable.")
  ELSE LET t == IF env.FAL_TIMEOUT # << >> THEN ParseInt(env.FAL_TIMEOUT)
                ELSE [nan |-> FALSE, n |-> DefaultTimeout]
       IN IF ~t.nan /\ t.n <= 0 THEN ConfigThrew("FAL_TIMEOUT must be a positive number")
          ELSE [threw |-> FALSE, message |-> "",
                config |-> [apiKey |-> env.FAL_KEY,
                            timeout |-> IF t.nan THEN NaN ELSE t.n,
                            outputDir |-> IF env.FAL_OUTPUT_DIR # "" THEN env.FAL_OUTPUT_DIR
                                          ELSE DefaultOutputDir]]

\* ------------------------------------------------------------------------
\* State
\* ------------------------------------------------------------------------

VARIABLES
  config,   \* the Config built once by loadConfig: apiKey, timeout, outputDir
  now,      \* the wall clock read by new Date()
  inv,      \* per invocation of the tools/call handler: its closure's state
  fs,       \* the files written: path -> [bytes, by]
  dirs,     \* the directories created by mkdirSync
  fn,       \* harness for the pure functions: which function is applied,
  fnIn,     \*   its input,
  fnOut,    \*   and its result once applied
  proc      \* the process: main()'s position, environment, server and exit status

vars == << config, now, inv, fs, dirs, fn, fnIn, fnOut, proc >>

Inv == 1..NumInv

\* pc: Idle (no request yet), Invoking (awaiting the race of client.run),
\*     Persisting (awaiting fetch in downloadFile), Responded (the handler
\*     returned a response), Escaped (the handler's promise rejected).
\* upstream: the promise of fal.subscribe; timer: the setTimeout of the race;
\* race: how Promise.race settled.
IdleInv ==
  [pc |-> "Idle", name |-> "", args |-> EmptyBag, input |-> EmptyBag, sent |-> EmptyBag,
   calls |-> 0, upstream |-> "none", timer |-> "none", budget |-> 0, race |-> "none",
   result |-> [hasData |-> FALSE, data |-> EmptyData], urls |-> << >>,
   locator |-> ImgNull, target |-> NoPath, fetch |-> "none", statusText |-> "",
   downloads |-> 0, writes |-> 0,
   resp |-> NoResponse, nresp |-> 0]

NoFiles == [p \in {} |-> [bytes |-> "", by |-> 0]]

InitConfig == [apiKey |-> "key", timeout |-> DefaultTimeout, outputDir |-> DefaultOutputDir]

\* phase: main()'s position (start, configured, registered, running), the
\* position of a signal handler (closing, closed) or exited; signal: the
\* signal being handled; handlers: the request handlers set on the server; connected: the
\* transport is connected; status: the exit status once exited; listed: the
\* names the last tools/list response carried.
Proc(phase, env, handlers, connected, status) ==
  [phase |-> phase, env |-> env, handlers |-> handlers, connected |-> connected,
   status |-> status, listed |-> << >>, signal |-> ""]

Handlers == {"tools/list", "tools/call"}

\* The process once main() has reached its end with FAL_KEY set.
RunningProc == Proc("running", Env("key", << >>, ""), Handlers, TRUE, 0)

InitPipeline ==
  /\ config = InitConfig
  /\ now = 0
  /\ inv = [i \in Inv |-> IdleInv]
  /\ fs = NoFiles
  /\ dirs = {}
  /\ proc = RunningProc

Init ==
  /\ InitPipeline
  /\ fn = "none"
  /\ fnIn = ErrNull
  /\ fnOut = HandlerThrew

\* ------------------------------------------------------------------------
\* Steps of the handler
\* ------------------------------------------------------------------------

\* return { content: [{ type: 'text', text }], isError? }
Respond(s, r) == [s EXCEPT !.pc = "Responded", !.resp = r, !.nresp = @ + 1]

\* catch (error) { const handled = client.handleError(error); return {..., isError: true} }
Catch(s, e) ==
  LET h == handleError(e) IN
  IF h.threw THEN [s EXCEPT !.pc = "Escaped"]
  ELSE Respond(s, Response(TRUE, h.text, h.arg, NoPath, FALSE, << >>))

\* client.<method>(apiInput): one fal.subscribe call raced against a timer
StartRace(s, name, apiInput, timeout) ==
  [s EXCEPT !.pc = "Invoking", !.sent = apiInput, !.calls = @ + 1,
            !.upstream = "pending", !.timer = "armed",
            !.budget = RaceBudget(name, timeout), !.race = "pending"]

\* The handler from its entry to its first await: the switch on the name,
\* schema.parse, and the client call.
Receive(i, r) ==
  /\ proc.phase = "running" /\ proc.connected /\ "tools/call" \in proc.handlers
  /\ inv[i].pc = "Idle"
  /\ LET s == [inv[i] EXCEPT !.name = r.name, !.args = r.args] IN
     inv' = [inv EXCEPT ![i] =
       IF r.name \notin Dispatched THEN Catch(s, UnknownTool(r.name))
       ELSE IF ~ZodParseOk(ZodSchema(r.name), r.args) THEN Catch(s, ZodError)
       ELSE LET input == ZodParsed(ZodSchema(r.name), r.args) IN
            StartRace([s EXCEPT !.input = input], r.name, ApiInput(input), config.timeout)]
  /\ UNCHANGED << config, now, fs, dirs, fn, fnIn, fnOut, proc >>

\* The handler resumes with the upstream result; downloadFile runs up to its
\* await of fetch (mkdirSync of the target's directory comes first).
Resume(s, result, outputDir, clock) ==
  LET next == AfterUpstream(s.name, s.input, result, outputDir, clock)
      got == [s EXCEPT !.result = result,
                       !.urls = IF result.hasData /\ OpTable(s.name).kind = "image"
                                   /\ ~extractImageUrls(result.data).threw
                                  THEN extractImageUrls(result.data).urls ELSE << >>]
  IN CASE next.do = "respond" -> Respond(got, next.resp)
       [] next.do = "throw" -> Catch(got, next.err)
       [] next.do = "download" ->
            [got EXCEPT !.pc = "Persisting", !.locator = next.item, !.target = next.path,
                        !.fetch = "pending", !.downloads = @ + 1]

\* UpstreamResolve resuming the handler whatever the state of the race.
UpstreamResolveAfterTimeout(i, result) ==
  /\ inv[i].upstream = "pending"
  /\ LET t == Resume([inv[i] EXCEPT !.upstream = "resolved", !.race = "fulfilled"],
                     result, config.outputDir, now) IN
     /\ inv' = [inv EXCEPT ![i] = t]
     /\ dirs' = IF t.pc = "Persisting" THEN dirs \cup {t.target.dir} ELSE dirs
  /\ UNCHANGED << config, now, fs, fn, fnIn, fnOut, proc >>

\* fal.subscribe resolves. The race takes the result only when still pending;
\* after a timeout the result is dropped.
UpstreamResolve(i, result) ==
  /\ inv[i].upstream = "pending"
  /\ LET s == [inv[i] EXCEPT !.upstream = "resolved"] IN
     IF inv[i].race = "pending"
       THEN LET t == Resume([s EXCEPT !.race = "fulfilled"], result, config.outputDir, now) IN
            /\ inv' = [inv EXCEPT ![i] = t]
            /\ dirs' = IF t.pc = "Persisting" THEN dirs \cup {t.target.dir} ELSE dirs
       ELSE /\ inv' = [inv EXCEPT ![i] = s]
            /\ dirs' = dirs
  /\ UNCHANGED << config, now, fs, fn, fnIn, fnOut, proc >>

\* UpstreamReject issuing the call again after a failure.
UpstreamRejectRetry(i, e) ==
  /\ inv[i].upstream = "pending"
  /\ inv' = [inv EXCEPT ![i] =
       IF inv[i].race = "pending" /\ inv[i].calls < 2
         THEN [inv[i] EXCEPT !.calls = @ + 1]
         ELSE Catch([inv[i] EXCEPT !.upstream = "rejected", !.race = "rejected"], e)]
  /\ UNCHANGED << config, now, fs, dirs, fn, fnIn, fnOut, proc >>

\* UpstreamReject failing every race that is pending, not only its own.
UpstreamRejectFailsAll(i, e) ==
  /\ inv[i].upstream = "pending"
  /\ inv' = [j \in Inv |->
       IF inv[j].race = "pending"
         THEN Catch([inv[j] EXCEPT !.upstream = "rejected", !.race = "rejected"], e)
         ELSE inv[j]]
  /\ UNCHANGED << config, now, fs, dirs, fn, fnIn, fnOut, proc >>

\* fal.subscribe rejects with e.
UpstreamReject(i, e) ==
  /\ inv[i].upstream = "pending"
  /\ LET s == [inv[i] EXCEPT !.upstream = "rejected"] IN
     inv' = [inv EXCEPT ![i] =
       IF inv[i].race = "pending" THEN Catch([s EXCEPT !.race = "rejected"], e) ELSE s]
  /\ UNCHANGED << config, now, fs, dirs, fn, fnIn, fnOut, proc >>

\* TimerFire whose rejection reaches the handler whatever the state of the race.
TimerFireAlwaysRejects(i) ==
  /\ inv[i].timer = "armed"
  /\ inv' = [inv EXCEPT ![i] =
       Catch([inv[i] EXCEPT !.timer = "fired", !.race = "timeout"], RequestTimeout)]
  /\ UNCHANGED << config, now, fs, dirs, fn, fnIn, fnOut, proc >>

\* The setTimeout callback runs: reject(new Error('Request timeout')).
TimerFire(i) ==
  /\ inv[i].timer = "armed"
  /\ LET s == [inv[i] EXCEPT !.timer = "fired"] IN
     inv' = [inv EXCEPT ![i] =
       IF inv[i].race = "pending" THEN Catch([s EXCEPT !.race = "timeout"], RequestTimeout)
       ELSE s]
  /\ UNCHANGED << config, now, fs, dirs, fn, fnIn, fnOut, proc >>

\* BytesAt yielding an empty buffer.
BytesAtEmpty(url) == ""

\* The bytes fetch(url) yields
BytesAt(url) == url

\* WriteFile that writes nothing.
WriteFileSkipped(files, path, bytes, i) == files

WriteFile(files, path, bytes, i) ==
  [q \in DOMAIN files \cup {path} |-> IF q = path THEN [bytes |-> bytes, by |-> i] ELSE files[q]]

\* response.statusText of a fetch that settles with a non-success status
StatusText(outcome) ==
  CASE outcome = "notok" -> "Not Found"
    [] outcome = "unavailable" -> "Service Unavailable"
    [] OTHER -> ""

\* fetch settles: ok -> writeFileSync and the success response; notok,
\* unavailable -> throw new Error(`Failed to download: ${statusText}`); reject ->
\* the fetch itself rejects. A locator that is not a string cannot be fetched.
FetchSettle(i, outcome) ==
  /\ inv[i].pc = "Persisting"
  /\ inv[i].fetch = "pending"
  /\ outcome = "ok" => inv[i].locator.k = "str"
  /\ LET s == inv[i] IN
     IF outcome = "ok"
       THEN /\ fs' = WriteFile(fs, s.target, BytesAt(s.locator.url), i)
            /\ inv' = [inv EXCEPT ![i] =
                 Respond([s EXCEPT !.fetch = "ok", !.writes = @ + 1],
                         SavedResponse(s.name, s.target, s.urls))]
       ELSE /\ fs' = fs
            /\ inv' = [inv EXCEPT ![i] =
                 Catch([s EXCEPT !.fetch = "failed", !.statusText = StatusText(outcome)],
                       IF outcome = "reject" THEN FetchFailed
                       ELSE DownloadFailed(StatusText(outcome)))]
  /\ UNCHANGED << config, now, dirs, fn, fnIn, fnOut, proc >>

\* Time passes.
Tick ==
  /\ now < MaxNow
  /\ now' = now + 1
  /\ UNCHANGED << config, inv, fs, dirs, fn, fnIn, fnOut, proc >>

\* ------------------------------------------------------------------------
\* Startup: the steps of main()
\* ------------------------------------------------------------------------

\* const config = loadConfig(); a throw reaches main's catch: process.exit(1)
LoadConfigStep ==
  /\ proc.phase = "start"
  /\ LET r == loadConfig(proc.env) IN
     IF r.threw
       THEN /\ proc' = [proc EXCEPT !.phase = "exited", !.status = 1]
            /\ config' = config
       ELSE /\ proc' = [proc EXCEPT !.phase = "configured"]
            /\ config' = r.config
  /\ UNCHANGED << now, inv, fs, dirs, fn, fnIn, fnOut >>

\* server.setRequestHandler(ListToolsRequestSchema, ...) and (CallToolRequestSchema, ...)
RegisterHandlers ==
  /\ proc.phase = "configured"
  /\ proc' = [proc EXCEPT !.phase = "registered", !.handlers = Handlers]
  /\ UNCHANGED << config, now, inv, fs, dirs, fn, fnIn, fnOut >>

\* await server.connect(transport)
Connect ==
  /\ proc.phase = "registered"
  /\ proc' = [proc EXCEPT !.phase = "running", !.connected = TRUE]
  /\ UNCHANGED << config, now, inv, fs, dirs, fn, fnIn, fnOut >>

\* The SIGINT / SIGTERM handler exiting without awaiting server.close().
SignalExitsAtOnce(sig) ==
  /\ proc.phase = "running"
  /\ proc' = [proc EXCEPT !.phase = "exited", !.signal = sig, !.status = 0]
  /\ UNCHANGED << config, now, inv, fs, dirs, fn, fnIn, fnOut >>

\* process.on(sig, ...) (installed once main reaches its end): the handler
\* starts and suspends at await server.close().
Signal(sig) ==
  /\ proc.phase = "running"
  /\ proc' = [proc EXCEPT !.phase = "closing", !.signal = sig]
  /\ UNCHANGED << config, now, inv, fs, dirs, fn, fnIn, fnOut >>

\* server.close() completes: the transport is closed.
CloseTransport ==
  /\ proc.phase = "closing"
  /\ proc' = [proc EXCEPT !.phase = "closed", !.connected = FALSE]
  /\ UNCHANGED << config, now, inv, fs, dirs, fn, fnIn, fnOut >>

\* The signal handler resumes: process.exit(0)
ExitAfterClose ==
  /\ proc.phase = "closed"
  /\ proc' = [proc EXCEPT !.phase = "exited", !.status = 0]
  /\ UNCHANGED << config, now, inv, fs, dirs, fn, fnIn, fnOut >>

\* The tools/list handler: returns the catalogue.
ListTools ==
  /\ proc.phase = "running" /\ proc.connected /\ "tools/list" \in proc.handlers
  /\ proc' = [proc EXCEPT !.listed = ToolNames]
  /\ UNCHANGED << config, now, inv, fs, dirs, fn, fnIn, fnOut >>

\* ------------------------------------------------------------------------
\* Inputs: requests, upstream results, thrown values, fetch outcomes
\* ------------------------------------------------------------------------

\* Values tried for a declared property: inside and outside its declared
\* type, enum and range.
Candidates(f, d) ==
  IF f = "save_path" THEN {Str("/data/out/a.png"), Str(""), Whole(1)}
  ELSE IF d.type = "string" /\ d.enum # {}
    THEN {Str(e) : e \in d.enum} \cup {Str("bogus"), Whole(1)}
  ELSE IF d.type = "string" THEN {Str("v"), Str(""), Whole(1)}
  ELSE IF d.hasMin /\ d.type = "integer"
    THEN {Num(d.min - 10), Num(d.min), Num(d.min + 5), Num(d.max), Num(d.max + 10), Str("3")}
  ELSE IF d.hasMin
    THEN {Num(d.min - 1), Num(d.min), Num(d.max), Num(d.max + 1), Str("3")}
  ELSE {Whole(7), Whole(-1), Num(25), Str("3")}

\* Every required field, with a valid value.
BaseArgs(name) == [f \in Catalogue(name).required |-> Str("v")]

\* The argument bags tried for a tool: the base; no argument at all; the base
\* without one required field; the base with one declared property set to a
\* candidate; the base with a key the tool does not declare, alone and next
\* to a save_path.
ArgCases(name) ==
  LET c == Catalogue(name)
      base == BaseArgs(name)
  IN {base, EmptyBag}
     \cup {Without(base, f) : f \in c.required}
     \cup UNION {{With(base, f, v) : v \in Candidates(f, c.properties[f])} :
                 f \in DOMAIN c.properties}
     \cup {With(base, "extra", Str("v")),
           With(With(base, "save_path", Str("/data/out/b.png")), "extra", Str("v"))}

Requests ==
  UNION {{[name |-> name, args |-> a] : a \in ArgCases(name)} : name \in Catalogued}
  \cup {[name |-> "no_such_tool", args |-> BaseArgs("generate_image")]}

Data(d) == [hasData |-> TRUE, data |-> d]

\* What fal.subscribe may resolve with.
Results ==
  {[hasData |-> FALSE, data |-> EmptyData],
   Data(EmptyData),
   Data(One("images", Arr(<< >>))),
   Data(One("images", Arr(<< ImgObj("U1") >>))),
   Data(One("images", Arr(<< ImgObj("U1"), ImgObj("U2") >>))),
   Data(One("video", Obj("U1"))),
   Data(One("audio", Obj("U1"))),
   Data(One("model", Obj("U1"))),
   Data(One("output", Obj("U1"))),
   Data(One("url", Obj("U1")))}

\* What fal.subscribe may reject with.
Rejections ==
  {ErrNull, ErrUndefined, ErrString("boom"),
   ErrObj(Msg("Unauthorized", ""), 401, "", ""),
   ErrObj(Msg("Too Many Requests", ""), 429, "", ""),
   ErrObj(Msg("Unprocessable Entity", ""), 422, "", "bad input"),
   ErrObj(Msg("getaddrinfo ENOTFOUND", ""), 0, "ENOTFOUND", ""),
   ErrObj(Msg("Internal Server Error", ""), 500, "", "")}

FetchOutcomes == {"ok", "notok", "reject"}

AllFetchOutcomes == FetchOutcomes \cup {"unavailable"}

\* ------------------------------------------------------------------------
\* Spec: one invocation, over every tool and argument case
\* ------------------------------------------------------------------------

Next ==
  \/ \E r \in Requests : Receive(1, r)
  \/ \E res \in Results : UpstreamResolve(1, res)
  \/ \E e \in Rejections : UpstreamReject(1, e)
  \/ TimerFire(1)
  \/ \E o \in AllFetchOutcomes : FetchSettle(1, o)
  \/ ListTools
  \/ Tick

Spec == Init /\ [][Next]_vars

\* ------------------------------------------------------------------------
\* SpecConc: NumInv invocations in flight at once, over a few requests
\* ------------------------------------------------------------------------

ConcRequests ==
  {[name |-> "generate_image", args |-> BaseArgs("generate_image")],
   [name |-> "estimate_depth",
    args |-> With(BaseArgs("estimate_depth"), "save_path", Str("/data/out/a.png"))]}

ConcResults ==
  {Data(One("images", Arr(<< ImgObj("U1") >>))), Data(One("images", Arr(<< ImgObj("U2") >>)))}

ConcRejections == {ErrObj(Msg("Too Many Requests", ""), 429, "", "")}

NextConc ==
  \/ \E i \in Inv : \E r \in ConcRequests : Receive(i, r)
  \/ \E i \in Inv : \E res \in ConcResults : UpstreamResolve(i, res)
  \/ \E i \in Inv : \E e \in ConcRejections : UpstreamReject(i, e)
  \/ \E i \in Inv : TimerFire(i)
  \/ \E i \in Inv : \E o \in FetchOutcomes : FetchSettle(i, o)
  \/ Tick

SpecConc == Init /\ [][NextConc]_vars

\* ------------------------------------------------------------------------
\* SpecBoot: the process from the start of main(), over environments
\* ------------------------------------------------------------------------

TimeoutStrings ==
  {<< >>, << "3", "0", "0", "0" >>, << "0" >>, << "-", "5" >>, << "a", "b", "c" >>,
   << "1", "2", "s" >>, << " ", "+", "7" >>}

Envs ==
  {Env(k, t, d) : k \in {"", "key"}, t \in TimeoutStrings, d \in {"", "/data/out"}}

InitBoot ==
  /\ config = NoConfig
  /\ now = 0
  /\ inv = [i \in Inv |-> IdleInv]
  /\ fs = NoFiles
  /\ dirs = {}
  /\ fn = "none"
  /\ fnIn = ErrNull
  /\ fnOut = HandlerThrew
  /\ \E env \in Envs : proc = Proc("start", env, {}, FALSE, 0)

NextBoot ==
  \/ LoadConfigStep
  \/ RegisterHandlers
  \/ Connect
  \/ ListTools
  \/ \E sig \in {"SIGINT", "SIGTERM"} : Signal(sig)
  \/ CloseTransport
  \/ ExitAfterClose
  \/ \E r \in ConcRequests : Receive(1, r)
  \/ \E res \in ConcResults : UpstreamResolve(1, res)
  \/ \E e \in ConcRejections : UpstreamReject(1, e)
  \/ TimerFire(1)
  \/ \E o \in FetchOutcomes : FetchSettle(1, o)
  \/ Tick

SpecBoot == InitBoot /\ [][NextBoot]_vars

\* ------------------------------------------------------------------------
\* SpecErr: handleError applied to every thrown value
\* ------------------------------------------------------------------------

Messages == {NoMsg, Msg("Request timeout", ""), Msg("boom", "")}
Statuses == {0, 401, 403, 422, 429, 500}
Codes == {"", "ENOTFOUND", "ECONNREFUSED", "EPIPE"}
Details == {"", "bad input"}

ThrownValues ==
  {ErrObj(m, st, c, d) : m \in Messages, st \in Statuses, c \in Codes, d \in Details}
  \cup {ErrNull, ErrUndefined, ErrString("boom")}

InitErr ==
  /\ InitPipeline
  /\ fn = "handleError"
  /\ fnIn \in ThrownValues
  /\ fnOut = HandlerThrew

ApplyHandleError ==
  /\ fn = "handleError"
  /\ fn' = "handleError.done"
  /\ fnOut' = handleError(fnIn)
  /\ UNCHANGED << config, now, inv, fs, dirs, fnIn, proc >>

NextErr == ApplyHandleError

SpecErr == InitErr /\ [][NextErr]_vars

\* ------------------------------------------------------------------------
\* SpecExt: the four extractors applied to payloads
\* ------------------------------------------------------------------------

\* Every key an extractor probes other than `images`.
ImageKeys == {"image", "image_url", "output", "url"}
VideoKeys == {"video", "video_url", "output", "url"}
AudioKeys == {"audio", "audio_url", "audio_file", "output", "url"}
ThreeDKeys == {"model", "model_url", "mesh", "output", "glb", "url"}

\* The payloads over a set of keys: each key absent, present without a
\* locator (an object with no url, an empty string), or present with a locator
\* of its own (named after the key).
PayloadsOver(keys) ==
  {[k \in {q \in keys : c[q] # "absent"} |-> IF c[k] = "url" THEN Obj(k) ELSE Obj("")] :
     c \in [keys -> {"absent", "empty", "url"}]}

\* Values of `images`: arrays of objects with and without url, of strings, of
\* null, and a value that is not an array.
ImagesValues ==
  {Arr(<< >>), Arr(<< ImgObj("A") >>), Arr(<< ImgObj("A"), ImgObj("B") >>),
   Arr(<< ImgObj("B"), ImgObj("A") >>), Arr(<< ImgStr("A") >>), Arr(<< ImgStr("") >>),
   Arr(<< ImgObj("A"), ImgStr(""), ImgStr("B") >>), Arr(<< ImgObj("") >>),
   Arr(<< ImgNull >>), Arr(<< ImgObj("A"), ImgNull >>), Obj("x")}

Payloads ==
  PayloadsOver(ImageKeys) \cup PayloadsOver(VideoKeys) \cup PayloadsOver(AudioKeys)
  \cup PayloadsOver(ThreeDKeys)
  \cup {With(d, "images", v) : d \in PayloadsOver(ImageKeys), v \in ImagesValues}

Extractors == {"extractImageUrls", "extractVideoUrl", "extractAudioUrl", "extract3DUrl"}

InitExt ==
  /\ InitPipeline
  /\ fn \in Extractors
  /\ fnIn \in Payloads
  /\ fnOut = ExtractThrew

ApplyExtractImageUrls ==
  /\ fn = "extractImageUrls"
  /\ fn' = "extractImageUrls.done"
  /\ fnOut' = extractImageUrls(fnIn)
  /\ UNCHANGED << config, now, inv, fs, dirs, fnIn, proc >>

ApplyExtractVideoUrl ==
  /\ fn = "extractVideoUrl"
  /\ fn' = "extractVideoUrl.done"
  /\ fnOut' = extractVideoUrl(fnIn)
  /\ UNCHANGED << config, now, inv, fs, dirs, fnIn, proc >>

ApplyExtractAudioUrl ==
  /\ fn = "extractAudioUrl"
  /\ fn' = "extractAudioUrl.done"
  /\ fnOut' = extractAudioUrl(fnIn)
  /\ UNCHANGED << config, now, inv, fs, dirs, fnIn, proc >>

ApplyExtract3DUrl ==
  /\ fn = "extract3DUrl"
  /\ fn' = "extract3DUrl.done"
  /\ fnOut' = extract3DUrl(fnIn)
  /\ UNCHANGED << config, now, inv, fs, dirs, fnIn, proc >>

NextExt ==
  \/ ApplyExtractImageUrls
  \/ ApplyExtractVideoUrl
  \/ ApplyExtractAudioUrl
  \/ ApplyExtract3DUrl

SpecExt == InitExt /\ [][NextExt]_vars

\* ------------------------------------------------------------------------
\* Properties
\* ------------------------------------------------------------------------

Started(i) == inv[i].pc # "Idle"

RespondedError(i) == inv[i].pc = "Responded" /\ inv[i].resp.isError /\ inv[i].nresp = 1

RespondedSuccess(i) == inv[i].pc = "Responded" /\ ~inv[i].resp.isError

MissingRequired(i) ==
  /\ inv[i].name \in Catalogued
  /\ \E f \in Catalogue(inv[i].name).required : f \notin DOMAIN inv[i].args

FilesBy(i) == {q \in DOMAIN fs : fs[q].by = i}

\* C1: for every catalogued tool, an invocation whose arguments omit a field
\* the catalogue lists as required ends in an error response, and no upstream
\* call is made for it.
C1_MissingRequiredRejected ==
  \A i \in Inv :
    (Started(i) /\ MissingRequired(i)) =>
      (RespondedError(i) /\ inv[i].calls = 0 /\ inv[i].upstream = "none")

C1_Witness ==
  \E i \in Inv : MissingRequired(i) /\ RespondedError(i) /\ inv[i].name = "retexture_3d"

\* C2: for every property the catalogue declares with an enum, a value outside
\* the declared set is rejected with an error before any upstream call, and a
\* value inside the set is forwarded upstream unchanged.
C2_EnumEnforced ==
  \A i \in Inv :
    (Started(i) /\ inv[i].name \in Catalogued) =>
      \A f \in DOMAIN Catalogue(inv[i].name).properties \cap DOMAIN inv[i].args :
        LET d == Catalogue(inv[i].name).properties[f]
            v == inv[i].args[f]
        IN d.enum # {} =>
             IF v.t = "string" /\ v.s \in d.enum
               THEN inv[i].calls = 1 /\ f \in DOMAIN inv[i].sent /\ inv[i].sent[f] = v
               ELSE RespondedError(i) /\ inv[i].calls = 0

\* The tools the claim names as video, audio and 3D operations.
VideoAudio3D ==
  {"text_to_video", "image_to_video", "lipsync", "avatar_video", "upscale_video",
   "remove_video_background", "face_swap_video", "generate_music", "text_to_speech",
   "generate_sound_effect", "image_to_3d", "retexture_3d"}

\* C3: every video, audio and 3D tool races its upstream call against 5 times
\* the configured timeout, and every other tool against exactly the timeout.
C3_LongRaceFiveTimes ==
  \A i \in Inv :
    inv[i].timer # "none" =>
      inv[i].budget = IF inv[i].name \in VideoAudio3D THEN 5 * config.timeout
                      ELSE config.timeout

\* C4: an invocation leaves each suspended stage (Invoking, Persisting) within
\* its timeout budget: it is never still in such a stage once the timer that
\* measures the budget has expired.
C4_LeavesStageWithinBudget ==
  \A i \in Inv : inv[i].pc \in {"Invoking", "Persisting"} => inv[i].timer = "armed"

\* C5: an invocation issues at most one upstream call: exactly one when
\* validation succeeds, none otherwise, and never a second one after the
\* upstream call failed or timed out.
C5_AtMostOneUpstreamCall ==
  \A i \in Inv :
    /\ inv[i].calls <= 1
    /\ Started(i) =>
         inv[i].calls = IF /\ inv[i].name \in Dispatched
                           /\ ZodParseOk(ZodSchema(inv[i].name), inv[i].args)
                          THEN 1 ELSE 0

C5_Witness ==
  \E i \in Inv :
    /\ inv[i].race = "rejected" /\ inv[i].upstream = "rejected"
    /\ inv[i].pc = "Responded" /\ inv[i].calls = 1

\* C6 as claimed: every success response has performed exactly one
\* download-and-write and left exactly one file; no invocation performs more
\* than one.
C6_SuccessWroteOneFile ==
  \A i \in Inv :
    /\ inv[i].downloads <= 1
    /\ RespondedSuccess(i) =>
         (inv[i].downloads = 1 /\ inv[i].writes = 1 /\ Cardinality(FilesBy(i)) = 1)

\* Extraction found no locator in the result the handler resumed with.
NoLocator(i) ==
  /\ inv[i].race = "fulfilled"
  /\ inv[i].result.hasData
  /\ IF OpTable(inv[i].name).kind = "image"
       THEN extractImageUrls(inv[i].result.data) = Extracted(<< >>)
       ELSE SingleUrl(OpTable(inv[i].name).kind, inv[i].result.data) = ""

\* C6 as amended: no invocation performs more than one download-and-write; a
\* success response that names a saved path has performed exactly one and the
\* file is at that path; every other success response carries the raw payload
\* and comes from an invocation that downloaded and wrote nothing (no locator
\* was found, or segment_image was given no save_path).
C6_AtMostOneDownload ==
  \A i \in Inv :
    /\ inv[i].downloads <= 1
    /\ inv[i].writes <= inv[i].downloads
    /\ Cardinality(FilesBy(i)) = inv[i].writes
    /\ RespondedSuccess(i) =>
         IF inv[i].resp.path # NoPath
           THEN /\ inv[i].downloads = 1 /\ inv[i].writes = 1
                /\ FilesBy(i) = {inv[i].resp.path}
                /\ inv[i].resp.path = inv[i].target
           ELSE /\ inv[i].downloads = 0 /\ inv[i].writes = 0
                /\ inv[i].resp.raw
                /\ \/ NoLocator(i)
                   \/ inv[i].name = "segment_image" /\ ~HasSavePath(inv[i].input)

C6_Witness ==
  \E i \in Inv :
    /\ RespondedSuccess(i) /\ Len(inv[i].urls) = 2
    /\ inv[i].downloads = 1 /\ FilesBy(i) = {inv[i].resp.path}

\* C8: when the upstream call succeeds and extraction finds no locator, the
\* response is an error for every generation/editing tool, and a success with
\* the raw payload only for segment_image and estimate_depth.
C8_NoLocatorIsError ==
  \A i \in Inv :
    (inv[i].pc = "Responded" /\ NoLocator(i)) =>
      IF inv[i].name \in {"segment_image", "estimate_depth"}
        THEN ~inv[i].resp.isError /\ inv[i].resp.raw
        ELSE inv[i].resp.isError

\* A failure was raised inside the handler's try block.
Failed(i) ==
  \/ Started(i) /\ inv[i].calls = 0
  \/ inv[i].race \in {"rejected", "timeout"}
  \/ inv[i].race = "fulfilled" /\ ~inv[i].result.hasData
  \/ inv[i].fetch = "failed"

\* C10: whatever is thrown or rejected during an invocation, the handler
\* returns a response with isError = true and one text message; the failure
\* never escapes the handler.
C10_FailureBecomesErrorResponse ==
  \A i \in Inv :
    /\ inv[i].pc # "Escaped"
    /\ Failed(i) => RespondedError(i)

\* The message the claimed first-match order gives a thrown value.
FirstMatch(error) ==
  CASE error.message = Msg("Request timeout", "") -> Handled(TimeoutText, NoMsg)
    [] error.message # Msg("Request timeout", "") /\ error.status \in {401, 403} ->
         Handled(InvalidKeyText, NoMsg)
    [] error.message # Msg("Request timeout", "") /\ error.status = 429 ->
         Handled(RateLimitText, NoMsg)
    [] error.message # Msg("Request timeout", "") /\ error.status = 422 ->
         Handled(ValidationText,
                 IF error.detail # "" THEN Msg(error.detail, "") ELSE Shown(error.message))
    [] /\ error.message # Msg("Request timeout", "")
       /\ error.status \notin {401, 403, 429, 422}
       /\ error.code \in {"ENOTFOUND", "ECONNREFUSED"} ->
         Handled(ConnectText, Shown(error.message))
    [] OTHER ->
         Handled(GenericText,
                 CASE error.kind \in {"null", "undefined"} -> Msg(error.kind, "")
                   [] error.kind = "string" -> Msg(error.str, "")
                   [] error.message # NoMsg -> error.message
                   [] OTHER -> Msg("[object Object]", ""))

\* C9: handleError maps every thrown value to exactly one message, the one of
\* the first rule that matches in the order timeout, 401/403, 429, 422,
\* ENOTFOUND/ECONNREFUSED, generic.
C9_FirstMatchWins ==
  fn = "handleError.done" => fnOut = FirstMatch(fnIn)

\* C9 on the values that have properties (everything but null and undefined).
C9_FirstMatchOnValues ==
  (fn = "handleError.done" /\ fnIn.kind \notin {"null", "undefined"}) =>
    fnOut = FirstMatch(fnIn)

TimeoutResponse == Response(TRUE, TimeoutText, NoMsg, NoPath, FALSE, << >>)

\* The state of invocation i after the step, apart from the bookkeeping of its
\* abandoned upstream promise and of its timer, is its state before.
SameOutcome(i) ==
  [inv'[i] EXCEPT !.upstream = "x", !.timer = "x"] = [inv[i] EXCEPT !.upstream = "x", !.timer = "x"]

\* C7: when the timer fires before the upstream call completes, the
\* invocation ends in the timed-out error response and writes no file; when
\* the abandoned call completes later its result is dropped: no download, no
\* write, no second response, and no other invocation is touched by it.
C7_TimeoutDropsLateResult ==
  [][\A i \in Inv :
       /\ (inv[i].race = "pending" /\ inv'[i].race = "timeout") =>
            /\ inv'[i].pc = "Responded" /\ inv'[i].resp = TimeoutResponse
            /\ inv'[i].nresp = 1 /\ inv'[i].downloads = 0 /\ inv'[i].writes = 0
            /\ {q \in DOMAIN fs' : fs'[q].by = i} = {}
       /\ inv[i].race = "timeout" =>
            /\ SameOutcome(i)
            /\ {q \in DOMAIN fs' : fs'[q].by = i} = {}
       /\ (inv[i].race = "timeout" /\ inv[i].upstream = "pending"
             /\ inv'[i].upstream # "pending") =>
            /\ \A j \in Inv \ {i} : inv'[j] = inv[j]
            /\ fs' = fs /\ dirs' = dirs
    ]_vars

C7_Witness ==
  \E i \in Inv :
    /\ inv[i].race = "timeout" /\ inv[i].upstream = "resolved"
    /\ inv[i].resp = TimeoutResponse /\ inv[i].nresp = 1
    /\ \E j \in Inv \ {i} : RespondedSuccess(j) /\ FilesBy(j) # {}

\* The `images` value is an array whose elements all carry a locator or are
\* strings (no null, no object without url).
PluralOfLocators(data) ==
  /\ Has(data, "images") /\ data["images"].arr
  /\ \A k \in 1..Len(data["images"].els) :
       \/ data["images"].els[k].k = "str"
       \/ data["images"].els[k].k = "obj" /\ data["images"].els[k].url # ""

\* The URLs of a sequence of such elements, in sequence order.
RECURSIVE UrlsOf(_)
UrlsOf(els) ==
  IF els = << >> THEN << >>
  ELSE (IF Head(els).url = "" THEN << >> ELSE << ImgStr(Head(els).url) >>) \o UrlsOf(Tail(els))

SingularOrder == << "image", "image_url", "output", "url" >>

\* The first location of the order that holds a locator, alone.
FirstSingular(data, order) ==
  LET at == {k \in 1..Len(order) : UrlOf(data, order[k]) # ""} IN
  IF at = {} THEN ""
  ELSE UrlOf(data, order[CHOOSE k \in at : \A j \in at : k <= j])

\* C11: extractImageUrls on a payload with an `images` sequence returns the
\* URLs of that sequence, in order, and none of the singular locators, whether
\* or not any is present; with no `images` sequence it returns alone the first
\* present of image.url, image_url, output.url, url.
C11_PluralBeforeSingular ==
  fn = "extractImageUrls.done" =>
    IF Has(fnIn, "images") /\ fnIn["images"].arr
      THEN PluralOfLocators(fnIn) => fnOut = Extracted(UrlsOf(fnIn["images"].els))
      ELSE fnOut = Extracted(IF FirstSingular(fnIn, SingularOrder) = "" THEN << >>
                             ELSE << ImgStr(FirstSingular(fnIn, SingularOrder)) >>)

C11_Witness ==
  /\ fn = "extractImageUrls.done"
  /\ Has(fnIn, "images") /\ fnIn["images"] = Arr(<< ImgObj("B"), ImgObj("A") >>)
  /\ UrlOf(fnIn, "image") # "" /\ UrlOf(fnIn, "url") # ""
  /\ fnOut = Extracted(<< ImgStr("B"), ImgStr("A") >>)

\* C12: on a payload whose only field is output with a url, extractVideoUrl,
\* extractAudioUrl and extract3DUrl each return that url; on a payload with
\* none of the fields an extractor probes, it returns null (here "").
C12_OutputFallback ==
  /\ fn \in {"extractVideoUrl.done", "extractAudioUrl.done", "extract3DUrl.done"} =>
       ((DOMAIN fnIn = {"output"} /\ fnIn["output"].url # "") => fnOut = fnIn["output"].url)
  /\ (fn = "extractVideoUrl.done" /\ DOMAIN fnIn \cap VideoKeys = {}) => fnOut = ""
  /\ (fn = "extractAudioUrl.done" /\ DOMAIN fnIn \cap AudioKeys = {}) => fnOut = ""
  /\ (fn = "extract3DUrl.done" /\ DOMAIN fnIn \cap ThreeDKeys = {}) => fnOut = ""

C12_Witness ==
  /\ fn = "extractAudioUrl.done"
  /\ fnIn = One("output", Obj("output"))
  /\ fnOut = "output"

\* C13: generate_image with valid arguments whose upstream payload is
\* {images: []} ends in an error response saying no image was generated; no
\* download is attempted and no file or directory is created.
C13_EmptyImagesIsError ==
  \A i \in Inv :
    (/\ inv[i].name = "generate_image" /\ inv[i].race = "fulfilled"
     /\ inv[i].result = Data(One("images", Arr(<< >>)))) =>
      /\ RespondedError(i)
      /\ inv[i].resp.text = "No image was generated. Try rephrasing your prompt."
      /\ inv[i].downloads = 0 /\ inv[i].fetch = "none" /\ inv[i].writes = 0
      /\ fs = NoFiles /\ dirs = {}

C13_Witness ==
  \E i \in Inv :
    /\ inv[i].name = "generate_image" /\ inv[i].race = "fulfilled"
    /\ inv[i].result = Data(One("images", Arr(<< >>)))
    /\ HasSavePath(inv[i].input)
    /\ RespondedError(i) /\ fs = NoFiles /\ dirs = {}

\* C14: for an image operation with valid arguments where upstream returns
\* {images: [{url: U}]} and the fetch of U succeeds, the response is a success
\* that names the resolved path (the explicit save_path, else a derived path in
\* the output directory with the operation's prefix), and in every state where
\* that response exists the file at that path holds exactly the bytes of U.
C14_SavedBytesAtNamedPath ==
  \A i \in Inv :
    (/\ inv[i].name \in Dispatched /\ inv[i].race = "fulfilled"
     /\ \E u \in {"U1", "U2"} :
          inv[i].result = Data(One("images", Arr(<< ImgObj(u) >>)))
     /\ inv[i].fetch = "ok") =>
      LET u == inv[i].result.data["images"].els[1].url
          p == inv[i].resp.path
      IN /\ OpTable(inv[i].name).kind = "image"
         /\ RespondedSuccess(i) /\ inv[i].nresp = 1
         /\ inv[i].resp.text = OpTable(inv[i].name).savedText
         /\ p \in DOMAIN fs /\ fs[p].bytes = u /\ fs[p].by = i
         /\ ("save_path" \in DOMAIN inv[i].args /\ inv[i].args["save_path"].s # "") =>
              p.raw = inv[i].args["save_path"].s
         /\ "save_path" \notin DOMAIN inv[i].args =>
              /\ p.raw = "" /\ p.dir = config.outputDir
              /\ p.prefix = OpTable(inv[i].name).prefix /\ p.ts \in 0..now

C14_Witness ==
  \E i \in Inv :
    /\ inv[i].name = "generate_image" /\ "save_path" \notin DOMAIN inv[i].args
    /\ inv[i].result = Data(One("images", Arr(<< ImgObj("U1") >>)))
    /\ inv[i].fetch = "ok" /\ RespondedSuccess(i)
    /\ inv[i].resp.path.prefix = "generated" /\ inv[i].resp.path.ts = MaxNow
    /\ fs[inv[i].resp.path].bytes = "U1"

\* The fields the catalogue declares for the tool of invocation i.
Declared(i) == DOMAIN Catalogue(inv[i].name).properties

\* C15: the input record of the upstream call holds exactly the declared
\* fields present in the arguments, minus save_path, each with the value
\* given: save_path and undeclared keys are never forwarded, and undeclared
\* keys do not make validation fail.
C15_ForwardsDeclaredMinusSavePath ==
  \A i \in Inv :
    (Started(i) /\ inv[i].name \in Catalogued) =>
      /\ inv[i].calls = 1 =>
           /\ DOMAIN inv[i].sent = (Declared(i) \cap DOMAIN inv[i].args) \ {"save_path"}
           /\ \A f \in DOMAIN inv[i].sent : inv[i].sent[f] = inv[i].args[f]
      /\ inv[i].calls = 0 => inv[i].sent = EmptyBag
      /\ inv[i].calls =
           IF ZodParseOk(ZodSchema(inv[i].name),
                         [f \in DOMAIN inv[i].args \cap Declared(i) |-> inv[i].args[f]])
             THEN 1 ELSE 0

C15_Witness ==
  \E i \in Inv :
    /\ inv[i].name = "retexture_3d" /\ inv[i].calls = 1
    /\ {"save_path", "extra"} \subseteq DOMAIN inv[i].args
    /\ DOMAIN inv[i].sent = {"model_url", "prompt"}

\* C16: an invocation naming a tool that is not in the catalogue ends in an
\* error response that names the unknown tool, with no upstream call, no
\* download and no file written.
C16_UnknownToolRejected ==
  \A i \in Inv :
    (Started(i) /\ inv[i].name \notin Catalogued) =>
      /\ RespondedError(i)
      /\ inv[i].resp.arg = Msg("Unknown tool: ", inv[i].name)
      /\ inv[i].calls = 0 /\ inv[i].upstream = "none"
      /\ inv[i].downloads = 0 /\ inv[i].writes = 0 /\ FilesBy(i) = {}

C16_Witness ==
  \E i \in Inv :
    /\ inv[i].name = "no_such_tool" /\ RespondedError(i)
    /\ inv[i].resp.text = GenericText
    /\ inv[i].resp.arg = Msg("Unknown tool: ", "no_such_tool")

\* The artifact of invocation i has a target path (a download was started).
HasTarget(i) == inv[i].downloads = 1

\* The fixed extension of each kind of artifact.
DefaultExt(kind) ==
  CASE kind = "image" -> "png" [] kind = "video" -> "mp4"
    [] kind = "audio" -> "mp3" [] kind = "3d" -> "glb"

\* The extension the claim gives: the request's output_format when given (and
\* not empty) for generate_image, image_to_image and inpaint, else the default.
ClaimedExt(i) ==
  IF /\ inv[i].name \in {"generate_image", "image_to_image", "inpaint"}
     /\ "output_format" \in DOMAIN inv[i].args /\ inv[i].args["output_format"].s # ""
    THEN inv[i].args["output_format"].s
    ELSE DefaultExt(OpTable(inv[i].name).kind)

\* {outputDir}/{prefix}-{ISO timestamp with ':' and '.' replaced by '-'}.{ext}
DerivedAsClaimed(i, p) ==
  /\ p.raw = "" /\ p.dir = config.outputDir
  /\ p.prefix = OpTable(inv[i].name).prefix
  /\ p.ext = ClaimedExt(i)
  /\ \E c \in 0..now :
       /\ Len(p.stamp) = Len(ToISOString(c))
       /\ \A k \in 1..Len(p.stamp) :
            p.stamp[k] = IF ToISOString(c)[k] \in {":", "."} THEN "-" ELSE ToISOString(c)[k]
  /\ \A k \in 1..Len(p.stamp) : p.stamp[k] \notin {":", "."}

\* C17 as claimed: whenever save_path is supplied as a string, the empty
\* string included, the artifact's target is exactly that path; the path is
\* derived only when save_path is not supplied.
C17_AnySavePathStringIsTarget ==
  \A i \in Inv :
    HasTarget(i) =>
      IF "save_path" \in DOMAIN inv[i].args
        THEN inv[i].target = ExplicitPath(inv[i].args["save_path"].s)
        ELSE DerivedAsClaimed(i, inv[i].target)

\* C17 as amended: a non-empty save_path is the target exactly; when
\* save_path is absent or the empty string the target is derived as
\* {outputDir}/{prefix}-{timestamp}.{extension}; a written file is at the target.
C17_NonEmptySavePathIsTarget ==
  \A i \in Inv :
    /\ HasTarget(i) =>
         IF "save_path" \in DOMAIN inv[i].args /\ inv[i].args["save_path"].s # ""
           THEN inv[i].target = ExplicitPath(inv[i].args["save_path"].s)
           ELSE /\ DerivedAsClaimed(i, inv[i].target)
                /\ inv[i].name # "segment_image"
    /\ FilesBy(i) \subseteq {inv[i].target}

C17_Witness ==
  \E i \in Inv :
    /\ inv[i].name = "inpaint" /\ inv[i].writes = 1
    /\ "save_path" \notin DOMAIN inv[i].args /\ "output_format" \in DOMAIN inv[i].args
    /\ inv[i].args["output_format"] = Str("jpeg")
    /\ inv[i].target.ext = "jpeg" /\ inv[i].target.prefix = "inpainted"
    /\ inv[i].target.stamp[12] = "-"
    /\ FilesBy(i) = {inv[i].target}

\* C18: when the artifact fetch returns a non-success HTTP status, the
\* invocation ends in an error response whose text contains the
\* download-failure message with the fetch's status text; no file is written
\* at the target path and the fetch is not retried.
C18_DownloadFailureIsError ==
  \A i \in Inv :
    (inv[i].fetch = "failed" /\ inv[i].statusText # "") =>
      /\ RespondedError(i)
      /\ inv[i].resp.arg = Msg("Failed to download: ", inv[i].statusText)
      /\ inv[i].writes = 0 /\ inv[i].target \notin DOMAIN fs /\ FilesBy(i) = {}
      /\ inv[i].downloads = 1

C18_Witness ==
  \E i \in Inv :
    /\ inv[i].fetch = "failed" /\ inv[i].statusText = "Service Unavailable"
    /\ RespondedError(i) /\ inv[i].resp.text = GenericText
    /\ inv[i].resp.arg = Msg("Failed to download: ", "Service Unavailable")
    /\ inv[i].target.raw = "/data/out/a.png" /\ fs = NoFiles

\* A value has the type a catalogue descriptor declares and lies within the
\* bounds it declares.
InDeclaredRange(d, v) ==
  /\ v.t = "number"
  /\ d.type = "integer" => v.n % 10 = 0
  /\ d.hasMin => v.n >= d.min
  /\ d.hasMax => v.n <= d.max

\* The numeric fields of invocation i's tool that its arguments carry.
NumericGiven(i) ==
  {f \in Declared(i) \cap DOMAIN inv[i].args :
     Catalogue(inv[i].name).properties[f].type \in {"integer", "number"}}

\* C19: for every numeric field of the catalogue, the validator enforces the
\* declared type and bounds: a value the upstream call receives for the field
\* is of the declared type and within the declared range; an in-range value of
\* the declared type is accepted and forwarded; any other value is rejected
\* before the upstream call.
C19_NumericBoundsEnforced ==
  \A i \in Inv :
    (Started(i) /\ inv[i].name \in Catalogued) =>
      \A f \in NumericGiven(i) :
        LET d == Catalogue(inv[i].name).properties[f] IN
        /\ f \in DOMAIN inv[i].sent => InDeclaredRange(d, inv[i].sent[f])
        /\ IF InDeclaredRange(d, inv[i].args[f])
             THEN inv[i].calls = 1 /\ f \in DOMAIN inv[i].sent
                  /\ inv[i].sent[f] = inv[i].args[f]
             ELSE inv[i].calls = 0 /\ RespondedError(i)

C19_Witness ==
  \E i \in Inv :
    /\ inv[i].name = "inpaint" /\ "num_inference_steps" \in DOMAIN inv[i].sent
    /\ inv[i].sent["num_inference_steps"] = Whole(50)
    /\ inv[i].calls = 1

\* C20: when the API credential is absent at startup the process exits with a
\* non-zero status, and then no request handler has been registered, the
\* transport has not been connected, and no list or invoke request is served.
C20_NoCredentialExitsBeforeServing ==
  (proc.env.FAL_KEY = "" /\ proc.phase # "start") =>
    /\ proc.phase = "exited" /\ proc.status # 0
    /\ proc.handlers = {} /\ ~proc.connected
    /\ proc.listed = << >>
    /\ \A i \in Inv : inv[i].pc = "Idle" /\ inv[i].calls = 0
    /\ config = NoConfig

C20_Witness ==
  /\ proc.env.FAL_KEY = "" /\ proc.env.FAL_TIMEOUT # << >>
  /\ proc.phase = "exited" /\ proc.status = 1
  /\ proc.handlers = {} /\ ~proc.connected /\ now = MaxNow

\* loadConfig has returned a configuration.
Configured == proc.phase \in {"configured", "registered", "running"}

\* C21: every configuration loadConfig returns has a timeout that is a
\* positive number of milliseconds: 120000 when FAL_TIMEOUT is unset, the
\* parsed value when it parses to a positive integer; for every other value
\* loadConfig fails instead of returning.
C21_TimeoutPositive ==
  /\ Configured =>
       /\ config.timeout # NaN /\ config.timeout > 0
       /\ proc.env.FAL_TIMEOUT = << >> => config.timeout = 120000
       /\ proc.env.FAL_TIMEOUT # << >> =>
            /\ ~ParseInt(proc.env.FAL_TIMEOUT).nan
            /\ config.timeout = ParseInt(proc.env.FAL_TIMEOUT).n
  /\ (/\ proc.phase # "start" /\ proc.env.FAL_TIMEOUT # << >>
      /\ \/ ParseInt(proc.env.FAL_TIMEOUT).nan
         \/ ParseInt(proc.env.FAL_TIMEOUT).n <= 0) =>
       proc.phase = "exited" /\ proc.status # 0

\* A response apart from the clock reading in a derived path.
Untimed(r) == [r EXCEPT !.path = [@ EXCEPT !.ts = 0, !.stamp = << >>]]

\* Two invocations were given the same arguments and the same outcomes of
\* their own upstream call and download.
SameInputs(i, j) ==
  /\ inv[i].name = inv[j].name /\ inv[i].args = inv[j].args
  /\ inv[i].race = inv[j].race /\ inv[i].result = inv[j].result
  /\ inv[i].fetch = inv[j].fetch /\ inv[i].statusText = inv[j].statusText

\* C22: with invocations in flight concurrently, under every interleaving, a
\* step of one invocation changes no other invocation's state; an
\* invocation's response is determined by its own arguments and the outcomes
\* of its own upstream call and download (two invocations with the same ones
\* respond alike, up to the timestamp of a derived path); a response once
\* given does not change; the configuration is never modified.
C22_InvocationsIndependent ==
  [][/\ config' = config
     /\ \A i \in Inv : \A j \in Inv \ {i} : inv'[i] # inv[i] => inv'[j] = inv[j]
     /\ \A i \in Inv : inv[i].pc = "Responded" =>
          inv'[i].pc = "Responded" /\ inv'[i].resp = inv[i].resp
     /\ \A i \in Inv : \A j \in Inv \ {i} :
          (inv'[i].pc = "Responded" /\ inv'[j].pc = "Responded"
             /\ inv'[i].name = inv'[j].name /\ inv'[i].args = inv'[j].args
             /\ inv'[i].race = inv'[j].race /\ inv'[i].result = inv'[j].result
             /\ inv'[i].fetch = inv'[j].fetch /\ inv'[i].statusText = inv'[j].statusText) =>
            Untimed(inv'[i].resp) = Untimed(inv'[j].resp)
    ]_vars

C22_Witness ==
  \E i \in Inv : \E j \in Inv \ {i} :
    /\ SameInputs(i, j) /\ RespondedSuccess(i) /\ RespondedSuccess(j)
    /\ inv[i].name = "generate_image"
    /\ inv[i].resp.path.ts # inv[j].resp.path.ts
    /\ Untimed(inv[i].resp) = Untimed(inv[j].resp)

\* C23: on SIGINT or SIGTERM the transport is closed before the process
\* exits and the exit status is 0; the process does not exit before the close
\* has completed.
C23_SignalClosesThenExitsZero ==
  proc.signal # "" =>
    /\ proc.phase \in {"closing", "closed", "exited"}
    /\ proc.phase = "closing" => proc.connected
    /\ proc.phase \in {"closed", "exited"} => ~proc.connected
    /\ proc.phase = "exited" => proc.status = 0

C23_Witness ==
  /\ proc.signal = "SIGTERM" /\ proc.phase = "exited" /\ proc.status = 0
  /\ ~proc.connected /\ inv[1].pc = "Persisting"

\* C24: every tools/list call returns the same 22 names in the same order,
\* whatever invocations ran in between, and these are exactly the names the
\* tools/call handler dispatches: no advertised name reaches the 'Unknown tool'
\* branch and no dispatched name is missing from the catalogue.
C24_CatalogueStableAndDispatched ==
  /\ proc.listed # << >> =>
       /\ proc.listed = ToolNames
       /\ Len(proc.listed) = 22
       /\ \A a \in 1..Len(proc.listed) : \A b \in 1..Len(proc.listed) :
            a # b => proc.listed[a] # proc.listed[b]
       /\ {proc.listed[k] : k \in 1..Len(proc.listed)} = Dispatched
  /\ \A i \in Inv :
       (Started(i) /\ inv[i].name \in Catalogued) =>
         ~(inv[i].pc = "Responded" /\ inv[i].resp.arg = Msg("Unknown tool: ", inv[i].name))

C24_Witness ==
  /\ proc.listed = ToolNames
  /\ inv[1].name = "retexture_3d" /\ RespondedSuccess(1)

\* An element of `images` that is falsy: null or the empty string.
Falsy(img) == img.k = "null" \/ (img.k = "str" /\ img.url = "")

\* C25: extractImageUrls returns an empty result whenever the payload has an
\* `images` array that is empty or whose elements are all falsy, even when a
\* usable singular locator is present; no singular locator is returned unless
\* `images` is absent or not an array.
C25_EmptyPluralShadowsSingular ==
  (fn = "extractImageUrls.done" /\ Has(fnIn, "images") /\ fnIn["images"].arr) =>
    /\ (\A k \in 1..Len(fnIn["images"].els) : Falsy(fnIn["images"].els[k])) =>
         fnOut = Extracted(<< >>)
    /\ \A k \in 1..Len(fnOut.urls) : fnOut.urls[k].url \notin ImageKeys

\* C26: every element of the sequence extractImageUrls returns is a URL
\* string, for any payload, an `images` array of objects without url included.
C26_OnlyUrlStringsReturned ==
  fn = "extractImageUrls.done" =>
    \A k \in 1..Len(fnOut.urls) : fnOut.urls[k].k = "str" /\ fnOut.urls[k].url # ""

ThreeDOrder == << "model", "model_url", "mesh", "output", "glb", "url" >>

\* C28: extract3DUrl returns the first present of model.url, model_url,
\* mesh.url, output.url, glb.url, url (null when none is): glb.url only when
\* output.url is absent, model.url and mesh.url before output.url.
C28_ThreeDOrder ==
  fn = "extract3DUrl.done" =>
    /\ fnOut = FirstSingular(fnIn, ThreeDOrder)
    /\ fnOut = "glb" => UrlOf(fnIn, "output") = ""
    /\ (UrlOf(fnIn, "model") # "" \/ UrlOf(fnIn, "mesh") # "") => fnOut # "output"

C28_Witness ==
  /\ fn = "extract3DUrl.done"
  /\ UrlOf(fnIn, "glb") = "glb" /\ UrlOf(fnIn, "output") = "output"
  /\ UrlOf(fnIn, "model") = "" /\ "model" \in DOMAIN fnIn
  /\ fnOut = "output"

\* C27: when the upstream call has completed (fulfilled or rejected) before
\* the timer fires, the timer is still armed and its later firing changes
\* nothing but the timer itself: the invocation's response and response count
\* stay as they are, no file or directory is added or removed, and every
\* other invocation is left as it was.
C27_LateTimerHasNoEffect ==
  [][\A i \in Inv :
       (/\ inv[i].race \in {"fulfilled", "rejected"}
        /\ inv[i].timer = "armed" /\ inv'[i].timer = "fired") =>
         /\ inv' = [inv EXCEPT ![i].timer = "fired"]
         /\ fs' = fs /\ dirs' = dirs]_vars

C27_Witness ==
  \E i \in Inv : \E j \in Inv \ {i} :
    /\ inv[i].race = "fulfilled" /\ inv[i].timer = "fired"
    /\ RespondedSuccess(i) /\ inv[i].nresp = 1 /\ FilesBy(i) # {}
    /\ inv[j].race = "pending" /\ inv[j].timer = "armed"

\* Invocation i succeeded with a saved artifact and gave no save_path.
SavedWithoutSavePath(i) ==
  /\ RespondedSuccess(i) /\ inv[i].fetch = "ok"
  /\ "save_path" \notin DOMAIN inv[i].args

\* C29: two invocations that both succeed without a save_path are saved to
\* distinct files, each response naming a path whose file holds the bytes of
\* that invocation's own artifact, whatever the interleaving (paths derived
\* within the same millisecond included).
C29_DistinctFilesWithoutSavePath ==
  \A i \in Inv : \A j \in Inv \ {i} :
    (SavedWithoutSavePath(i) /\ SavedWithoutSavePath(j)) =>
      /\ inv[i].resp.path # inv[j].resp.path
      /\ inv[i].resp.path \in DOMAIN fs
      /\ fs[inv[i].resp.path].bytes = BytesAt(inv[i].locator.url)

\* C30: an invocation that ends in an error response leaves the filesystem
\* as it was: no file of its own, and, when the fetch failed, neither the
\* target file nor the target's directory has been created.
C30_ErrorLeavesFilesystemUnchanged ==
  \A i \in Inv :
    RespondedError(i) =>
      /\ FilesBy(i) = {}
      /\ inv[i].fetch = "failed" =>
           (inv[i].target \notin DOMAIN fs /\ inv[i].target.dir \notin dirs)

====
